---- MODULE Spec2Model ----
(***************************************************************************)
(* Model of debug_tools/parser_output_visualizer/app.py: one run of        *)
(* streamlit_app is a top-to-bottom pass over the script; the session      *)
(* store survives from one run to the next.                                *)
(***************************************************************************)
EXTENDS Integers, Sequences, FiniteSets, TLC

(* ---- bounds of the model ---- *)
MaxReports == 2
MaxExtraSteps == 1
MaxPageSize == 2
MaxColumns == 2
MaxParsed == 1
MaxElems == 3

(* ---- program constants ---- *)
DEFAULT_PAGE_SIZE == 50

None == "None"

(* ---- input alphabets ---- *)
TickerOptions == <<"AAPL", "GOOG">>
UrlTokens == {"U1", "U2"}
EnvKeys == {None, "ENVKEY"}
TypedKeys == {"", "TYPED"}
Classes == {"TextElement", "IrrelevantElement", "EmptyElement"}
ExtraStepTitles == <<"Value Added", "Exported", "Archived">>

VARIABLES
    environ,          \* os.environ[API_KEY_ENV_VAR_NAME], or None when not set
    extra_steps,      \* the caller's extra_steps argument
    session,          \* st.session_state and the widgets' stored values
    pc,               \* position of the current run in the script
    secapio_api_key,
    tickers,
    input_urls,
    metadatas,
    htmls_urls,
    htmls,
    elements_lists,
    trees,
    selected_step,
    process_steps,    \* the steps the step selector offers
    view,             \* the view options read from the sidebar in this run
    shown,            \* what this run rendered as report content
    messages,         \* the inline messages this run showed
    calls,            \* the calls this run made to the external collaborators
    produced,         \* the element lists as get_semantic_elements returned them
    parsed_reports    \* StreamlitAppReturn.parsed_reports once pc = "done"

vars == <<environ, extra_steps, session, pc, secapio_api_key, tickers, input_urls,
          metadatas, htmls_urls, htmls, elements_lists, trees, selected_step,
          process_steps, view, shown, messages, calls, produced, parsed_reports>>

(* ---- sequences ---- *)
SeqsUpTo(S, n) == UNION {[1..k -> S] : k \in 0..n}

Range(s) == {s[i] : i \in 1..Len(s)}

RECURSIVE FilterSeq(_, _)
FilterSeq(s, keep) ==
    IF s = <<>> THEN <<>>
    ELSE IF Head(s) \in keep THEN <<Head(s)>> \o FilterSeq(Tail(s), keep)
         ELSE FilterSeq(Tail(s), keep)

RECURSIVE Flatten(_)
Flatten(ss) == IF ss = <<>> THEN <<>> ELSE Head(ss) \o Flatten(Tail(ss))

Min(a, b) == IF a < b THEN a ELSE b

(* ---- the external collaborators ---- *)

\* Outcomes of one get_metadata / download_html call.
RetrievalOutcomes ==
    {"ok", "SecapioApiKeyNotSetError", "SecapioApiKeyInvalidError", "OtherError"}

\* metadata["linkToFilingDetails"] of the latest 10-Q of a ticker.
FilingUrl(ticker) == IF ticker = "AAPL" THEN "F_AAPL" ELSE "F_GOOG"

\* The JSON metadata get_metadata returns for a ticker or for a URL.
MetadataOfTicker(ticker) == [companyName |-> ticker, linkToFilingDetails |-> FilingUrl(ticker)]
MetadataOfUrl(url) == [companyName |-> url, linkToFilingDetails |-> url]

\* The document text download_html returns for a URL.
HtmlOf(url) == [document |-> url]

\* clean_user_input: the entered tokens, blank ones dropped.
clean_user_input(tokens) == FilterSeq(tokens, Range(tokens) \ {""})

\* The values st.multiselect can return: the options picked, each once.
MultiselectValues(options) ==
    {s \in SeqsUpTo(Range(options), Len(options)) :
        \A i, j \in 1..Len(s) : i # j => s[i] # s[j]}

(* ---- messages and calls ---- *)
Msg(kind, text) == [kind |-> kind, text |-> text]
Call(fn, key, arg, outcome) == [fn |-> fn, key |-> key, arg |-> arg, outcome |-> outcome]

MSG_NO_TICKER == Msg("info", "Please select or enter at least one ticker.")
MSG_NO_URL == Msg("info", "Please enter at least one URL.")
MSG_KEY_NOT_SET == Msg("error", "API key not set")
MSG_KEY_INVALID == Msg("error", "Invalid API key")
MSG_WELCOME == Msg("success", "Welcome!")
\* The uncaught AssertionError of line 176, as the page shows it.
MSG_ASSERTION == Msg("exception", "AssertionError")

(* ---- start of a run: lines 39-72 ---- *)
\* No report content rendered (yet).
NothingShown == [kind |-> "nothing"]

DefaultView ==
    [element_column_count |-> 2, default_column_count |-> 2,
     do_interleave |-> FALSE, use_tree_view |-> TRUE,
     show_text_length |-> FALSE, available_element_types |-> <<>>,
     preselected_types |-> <<>>, selected_types |-> {}]

LocalsAtStart ==
    /\ secapio_api_key = ""
    /\ tickers = <<"AAPL", "GOOG">>
    /\ input_urls = <<>>
    /\ metadatas = <<>>
    /\ htmls_urls = <<>>
    /\ htmls = <<>>
    /\ elements_lists = <<>>
    /\ trees = <<>>
    /\ selected_step = 0
    /\ process_steps = <<>>
    /\ view = DefaultView
    /\ shown = NothingShown
    /\ messages = <<>>
    /\ calls = <<>>
    /\ produced = <<>>
    /\ parsed_reports = <<>>

Init ==
    /\ environ \in EnvKeys
    /\ extra_steps \in {SubSeq(ExtraStepTitles, 1, k) : k \in 0..Min(MaxExtraSteps, Len(ExtraStepTitles))}
    /\ session = [api_key |-> None, step_index |-> 0, step_clicked |-> FALSE]
    /\ pc = "start"
    /\ LocalsAtStart

(* ---- the API key: lines 74-104 ---- *)
\* st.session_state.get(secapio_api_key_name, "")
SessionGetKey(sess) == IF sess.api_key = None THEN "" ELSE sess.api_key

\* Lines 75-76: the value of secapio_api_key before the input field is drawn.
KeyBeforeInput(env, sess) == SessionGetKey(sess)

ReadApiKey ==
    /\ pc = "start"
    /\ IF environ = None
       THEN \E typed \in {KeyBeforeInput(environ, session)} \cup TypedKeys :
                /\ secapio_api_key' = typed
                /\ session' = [session EXCEPT !.api_key = typed]
       ELSE /\ secapio_api_key' = KeyBeforeInput(environ, session)
            /\ session' = session
    /\ pc' = "inputs"
    /\ UNCHANGED <<environ, extra_steps, tickers, input_urls, metadatas, htmls_urls,
                   htmls, elements_lists, trees, selected_step, process_steps, view, shown, messages,
                   calls, produced, parsed_reports>>

(* ---- the report chooser: lines 106-176 ---- *)
FIND_BY_TICKER == "Ticker symbols"
ENTER_URL_DIRECTLY == "URLs"

\* Mutant: the missing-input notice shown with st.error.
MissingInputMessageAsError(source) ==
    IF source = FIND_BY_TICKER
    THEN Msg("error", "Please select or enter at least one ticker.")
    ELSE Msg("error", "Please enter at least one URL.")

\* Lines 148-150 and 161-163: the message of a run that has nothing to load.
MissingInputMessage(source) == IF source = FIND_BY_TICKER THEN MSG_NO_TICKER ELSE MSG_NO_URL

\* Mutant: st.stop() left out after the notice of the URL mode.
HaltsOnMissingTickerOnly(source, chosen) == source = FIND_BY_TICKER /\ chosen = <<>>

\* Lines 148-150 and 161-163: `if not tickers` / `if not input_urls`, then st.stop().
HaltsOnMissingInput(source, chosen) == chosen = <<>>

ChooseReports ==
    /\ pc = "inputs"
    /\ \E source \in {FIND_BY_TICKER, ENTER_URL_DIRECTLY} :
         \E chosen \in
              IF source = FIND_BY_TICKER
              THEN MultiselectValues(TickerOptions)
                     \cup {clean_user_input(t) :
                              t \in SeqsUpTo(Range(TickerOptions) \cup {""}, MaxReports)}
              ELSE {clean_user_input(t) : t \in SeqsUpTo(UrlTokens \cup {""}, MaxReports)} :
            /\ tickers' = IF source = FIND_BY_TICKER THEN chosen ELSE <<>>
            /\ input_urls' = IF source = ENTER_URL_DIRECTLY THEN chosen ELSE <<>>
            /\ IF HaltsOnMissingInput(source, chosen)
               THEN /\ messages' = Append(messages, MissingInputMessage(source))
                    /\ pc' = "stopped"
               ELSE IF tickers' # <<>> \/ input_urls' # <<>>
               THEN /\ messages' = messages
                    /\ pc' = "retrieve"
               ELSE /\ messages' = Append(messages, MSG_ASSERTION)
                    /\ pc' = "crashed"
    /\ UNCHANGED <<environ, extra_steps, session, secapio_api_key, metadatas, htmls_urls,
                   htmls, elements_lists, trees, selected_step, process_steps, view, shown, calls,
                   produced, parsed_reports>>

(* ---- retrieval: lines 175-209 ---- *)
\* Mutant: the invalid-key error has no except clause.
AfterFailureInvalidUncaught(outcome) ==
    IF outcome = "SecapioApiKeyNotSetError" THEN [msg |-> <<MSG_KEY_NOT_SET>>, pc |-> "stopped"]
    ELSE [msg |-> <<>>, pc |-> "crashed"]

\* What an exception raised inside the try block leads to (lines 204-209).
AfterFailure(outcome) ==
    IF outcome = "SecapioApiKeyNotSetError" THEN [msg |-> <<MSG_KEY_NOT_SET>>, pc |-> "stopped"]
    ELSE IF outcome = "SecapioApiKeyInvalidError" THEN [msg |-> <<MSG_KEY_INVALID>>, pc |-> "stopped"]
    ELSE [msg |-> <<>>, pc |-> "crashed"]

NextPcAfterRetrieval(done) ==
    IF done = Len(tickers) + Len(input_urls) THEN "steps" ELSE "retrieve"

\* One pass of the loop of lines 177-191.
RetrieveTicker ==
    /\ pc = "retrieve"
    /\ Len(htmls) < Len(tickers)
    /\ LET ticker == tickers[Len(htmls) + 1]
           metadata == MetadataOfTicker(ticker)
           url == metadata.linkToFilingDetails
           c1(o) == Call("get_metadata", secapio_api_key, ticker, o)
           c2(o) == Call("download_html", secapio_api_key, url, o)
       IN \E o1, o2 \in RetrievalOutcomes :
            IF o1 # "ok"
            THEN /\ calls' = Append(calls, c1(o1))
                 /\ messages' = messages \o AfterFailure(o1).msg
                 /\ pc' = AfterFailure(o1).pc
                 /\ UNCHANGED <<metadatas, htmls_urls, htmls>>
            ELSE IF o2 # "ok"
            THEN /\ calls' = calls \o <<c1(o1), c2(o2)>>
                 /\ metadatas' = Append(metadatas, metadata)
                 /\ messages' = messages \o AfterFailure(o2).msg
                 /\ pc' = AfterFailure(o2).pc
                 /\ UNCHANGED <<htmls_urls, htmls>>
            ELSE /\ calls' = calls \o <<c1(o1), c2(o2)>>
                 /\ metadatas' = Append(metadatas, metadata)
                 /\ htmls_urls' = Append(htmls_urls, url)
                 /\ htmls' = Append(htmls, HtmlOf(url))
                 /\ messages' = messages
                 /\ pc' = NextPcAfterRetrieval(Len(htmls) + 1)
    /\ UNCHANGED <<environ, extra_steps, session, secapio_api_key, tickers, input_urls,
                   elements_lists, trees, selected_step, process_steps, view, shown, produced,
                   parsed_reports>>

\* One pass of the loop of lines 192-203.
RetrieveUrl ==
    /\ pc = "retrieve"
    /\ Len(htmls) >= Len(tickers)
    /\ Len(htmls) < Len(tickers) + Len(input_urls)
    /\ LET url == input_urls[Len(htmls) - Len(tickers) + 1]
           c1(o) == Call("download_html", secapio_api_key, url, o)
           c2(o) == Call("get_metadata", secapio_api_key, url, o)
       IN \E o1, o2 \in RetrievalOutcomes :
            IF o1 # "ok"
            THEN /\ calls' = Append(calls, c1(o1))
                 /\ messages' = messages \o AfterFailure(o1).msg
                 /\ pc' = AfterFailure(o1).pc
                 /\ UNCHANGED <<metadatas, htmls_urls, htmls>>
            ELSE IF o2 # "ok"
            THEN /\ calls' = calls \o <<c1(o1), c2(o2)>>
                 /\ messages' = messages \o AfterFailure(o2).msg
                 /\ pc' = AfterFailure(o2).pc
                 /\ UNCHANGED <<metadatas, htmls_urls, htmls>>
            ELSE /\ calls' = calls \o <<c1(o1), c2(o2)>>
                 /\ metadatas' = Append(metadatas, MetadataOfUrl(url))
                 /\ htmls_urls' = Append(htmls_urls, url)
                 /\ htmls' = Append(htmls, HtmlOf(url))
                 /\ messages' = messages
                 /\ pc' = NextPcAfterRetrieval(Len(htmls) + 1)
    /\ UNCHANGED <<environ, extra_steps, session, secapio_api_key, tickers, input_urls,
                   elements_lists, trees, selected_step, process_steps, view, shown, produced,
                   parsed_reports>>

(* ---- the step selector: lines 211-247 ---- *)
ProcessStepTitles(extra) == <<"Original", "Parsed", "Structured">> \o extra

\* Mutant: the 0-based index returned as it is.
SelectedStepZeroBased(index) == index

\* Line 228: 1 + the index sac.steps returns.
SelectedStepOf(index) == 1 + index

SelectStep ==
    /\ pc = "steps"
    /\ process_steps' = ProcessStepTitles(extra_steps)
    /\ selected_step' = SelectedStepOf(session.step_index)
    /\ messages' = IF selected_step' = 1 THEN Append(messages, MSG_WELCOME) ELSE messages
    /\ pc' = IF selected_step' >= 2 THEN "parse" ELSE "options"
    /\ UNCHANGED <<environ, extra_steps, session, secapio_api_key, tickers, input_urls,
                   metadatas, htmls_urls, htmls, elements_lists, trees, view, shown,
                   calls, produced, parsed_reports>>

(* ---- parsing: lines 249-252 ---- *)
\* A semantic element: its class, the document it was parsed from, its position there.
Element(cls, html, pos) == [cls |-> cls, html |-> html, pos |-> pos]

ElementsOf(html, classes) ==
    [k \in 1..Len(classes) |-> Element(classes[k], html, k)]

ClassesOf(elements) == [k \in 1..Len(elements) |-> elements[k].cls]

RECURSIVE TotalLen(_)
TotalLen(ss) == IF ss = <<>> THEN 0 ELSE Len(Head(ss)) + TotalLen(Tail(ss))

\* The lists get_semantic_elements may return for a document of which the lists
\* `earlier` were returned for the documents `docs` before: the same document
\* parses to the same elements; at most `budget` elements over all documents.
ParserOutputs(html, docs, earlier, budget) ==
    IF \E j \in 1..Len(earlier) : docs[j] = html
    THEN {ElementsOf(html, ClassesOf(earlier[CHOOSE j \in 1..Len(earlier) : docs[j] = html]))}
    ELSE {ElementsOf(html, cs) : cs \in SeqsUpTo(Classes, budget - TotalLen(earlier))}

ParseReport ==
    /\ pc = "parse"
    /\ selected_step >= 2
    /\ Len(elements_lists) < Len(htmls)
    /\ LET html == htmls[Len(elements_lists) + 1]
       IN \E elements \in ParserOutputs(html, htmls, produced, MaxParsed) :
            /\ elements_lists' = Append(elements_lists, elements)
            /\ produced' = Append(produced, elements)
            /\ calls' = Append(calls, Call("get_semantic_elements", None, html, "ok"))
    /\ pc' = IF Len(elements_lists') = Len(htmls) THEN "options" ELSE "parse"
    /\ UNCHANGED <<environ, extra_steps, session, secapio_api_key, tickers, input_urls,
                   metadatas, htmls_urls, htmls, trees, selected_step, process_steps, view, shown,
                   messages, parsed_reports>>

(* ---- the element-type filter: lines 264-307 ---- *)
\* The keys of a Counter, in the order of their first occurrence.
RECURSIVE FirstOccurrences(_)
FirstOccurrences(s) ==
    IF s = <<>> THEN <<>>
    ELSE LET front == FirstOccurrences(SubSeq(s, 1, Len(s) - 1))
             last == s[Len(s)]
         IN IF last \in Range(front) THEN front ELSE Append(front, last)

\* Counter(element.__class__ for elements in elements_lists for element in elements)
CountedElementTypes(lists) ==
    LET all == Flatten([i \in 1..Len(lists) |-> ClassesOf(lists[i])])
    IN [keys |-> FirstOccurrences(all),
        count |-> [c \in Range(all) |-> Cardinality({i \in 1..Len(all) : all[i] = c})]]

\* sorted(keys, key=count, reverse=True): stable, equal keys keep their order.
RECURSIVE InsertByCount(_, _, _)
InsertByCount(sorted, x, count) ==
    IF sorted = <<>> THEN <<x>>
    ELSE IF count[Head(sorted)] >= count[x]
         THEN <<Head(sorted)>> \o InsertByCount(Tail(sorted), x, count)
         ELSE <<x>> \o sorted

\* Mutant: the classes left in the Counter's order.
NotSortedByCount(keys, count) == keys

RECURSIVE SortedByCount(_, _)
SortedByCount(keys, count) ==
    IF keys = <<>> THEN <<>>
    ELSE InsertByCount(SortedByCount(SubSeq(keys, 1, Len(keys) - 1), count),
                       keys[Len(keys)], count)

\* get_pretty_class_name(cls): the display name of an element class.
PrettyName(cls) ==
    CASE cls = "TextElement" -> "Text"
      [] cls = "IrrelevantElement" -> "Irrelevant"
      [] cls = "EmptyElement" -> "Empty"
      [] OTHER -> cls

\* issubclass(cls, IrrelevantElement)
IsIrrelevant(cls) == cls \in {"IrrelevantElement", "EmptyElement"}

\* issubclass(cls, t) over the modelled classes: EmptyElement derives from
\* IrrelevantElement, the other classes are unrelated.
issubclass(cls, t) == cls = t \/ (t = "IrrelevantElement" /\ IsIrrelevant(cls))

\* format_cls: f'{counted_element_types[cls]}x {pretty name}'
format_cls(cls, count) == <<count[cls], PrettyName(cls)>>

\* A dict as the sequence of its (key, value) items: assigning to a key that is
\* present replaces its value where it stands, a new key goes to the end.
DictPut(d, k, v) ==
    IF \E i \in 1..Len(d) : d[i][1] = k
    THEN [i \in 1..Len(d) |-> IF d[i][1] = k THEN <<k, v>> ELSE d[i]]
    ELSE Append(d, <<k, v>>)

DictKeys(d) == [i \in 1..Len(d) |-> d[i][1]]
DictValues(d) == [i \in 1..Len(d) |-> d[i][2]]
DictGet(d, k) == d[CHOOSE i \in 1..Len(d) : d[i][1] = k][2]

RECURSIVE OptionsDict(_, _)
OptionsDict(classes, count) ==
    IF classes = <<>> THEN <<>>
    ELSE DictPut(OptionsDict(SubSeq(classes, 1, Len(classes) - 1), count),
                 format_cls(classes[Len(classes)], count), classes[Len(classes)])

\* Lines 272-279.
AvailableElementTypes(lists) ==
    LET counted == CountedElementTypes(lists)
    IN OptionsDict(SortedByCount(counted.keys, counted.count), counted.count)

\* Lines 281-285.
PreselectedTypes(lists) ==
    LET counted == CountedElementTypes(lists)
        values == DictValues(AvailableElementTypes(lists))
        kept == FilterSeq(values, {c \in Range(values) : ~IsIrrelevant(c)})
    IN [i \in 1..Len(kept) |-> format_cls(kept[i], counted.count)]

\* Lines 298-300.
SelectedClasses(lists, labels) ==
    {DictGet(AvailableElementTypes(lists), k) : k \in labels}

\* Mutant: isinstance(e, t) in the place of type(e) == t.
KeepSelectedIsInstance(elements, selected) ==
    LET keep == {k \in 1..Len(elements) :
                    \E t \in selected : issubclass(elements[k].cls, t)}
        F[n \in 0..Len(elements)] ==
            IF n = 0 THEN <<>>
            ELSE IF n \in keep THEN Append(F[n - 1], elements[n]) ELSE F[n - 1]
    IN F[Len(elements)]

\* Lines 303-307: the elements whose class is one of the selected classes.
KeepSelected(elements, selected) ==
    LET keep == {k \in 1..Len(elements) : \E t \in selected : elements[k].cls = t}
        F[n \in 0..Len(elements)] ==
            IF n = 0 THEN <<>>
            ELSE IF n \in keep THEN Append(F[n - 1], elements[n]) ELSE F[n - 1]
    IN F[Len(elements)]

\* Line 258.
DefaultColumnCount(n) == IF n # 2 THEN 1 ELSE 2

\* Lines 254-357: the sidebar's view options and the filter.
ViewOptions ==
    /\ pc = "options"
    /\ IF selected_step >= 2 /\ selected_step <= 3
       THEN \E labels \in SUBSET Range(DictKeys(AvailableElementTypes(elements_lists))) :
            \E cols \in 1..MaxColumns, interleave, merged, text_length \in BOOLEAN :
              LET selected == SelectedClasses(elements_lists, labels)
              IN /\ elements_lists' =
                        [i \in 1..Len(elements_lists) |->
                            KeepSelected(elements_lists[i], selected)]
                 /\ (selected_step # 2 => cols = DefaultColumnCount(Len(htmls)))
                 /\ (~(selected_step = 2 /\ Len(htmls) >= 2) => interleave = FALSE)
                 /\ (selected_step # 3 => merged = FALSE)
                 /\ (~(selected_step = 3 /\ ~merged) => text_length = FALSE)
                 /\ view' = [element_column_count |-> cols,
                             default_column_count |-> DefaultColumnCount(Len(htmls)),
                             do_interleave |-> interleave,
                             use_tree_view |-> ~merged,
                             show_text_length |-> text_length,
                             available_element_types |->
                                 AvailableElementTypes(elements_lists),
                             preselected_types |-> PreselectedTypes(elements_lists),
                             selected_types |-> selected]
       ELSE /\ elements_lists' = elements_lists
            /\ view' = [view EXCEPT
                          !.element_column_count = DefaultColumnCount(Len(htmls)),
                          !.default_column_count = DefaultColumnCount(Len(htmls)),
                          !.do_interleave = FALSE]
    /\ pc' = IF selected_step >= 3 THEN "trees" ELSE "render"
    /\ UNCHANGED <<environ, extra_steps, session, secapio_api_key, tickers, input_urls,
                   metadatas, htmls_urls, htmls, trees, selected_step, process_steps, shown, messages,
                   calls, produced, parsed_reports>>

(* ---- tree building: lines 360-363 ---- *)
TreeNode(element, children) == [semantic_element |-> element, children |-> children]

\* The forests get_semantic_tree may build over a list of elements: every element
\* is the element of one node, and the nodes in pre-order are the list.
RECURSIVE Forests(_)
Forests(elements) ==
    IF elements = <<>> THEN {<<>>}
    ELSE UNION {
           {<<TreeNode(elements[1], below)>> \o after :
               below \in Forests(SubSeq(elements, 2, k)),
               after \in Forests(SubSeq(elements, k + 1, Len(elements)))}
           : k \in 1..Len(elements)}

get_semantic_tree(elements) == {[root_nodes |-> f] : f \in Forests(elements)}

\* Mutant: the tree built from the list as the parser returned it.
TreeInputAsProduced(i) == produced[i]

\* Line 360: the list the i-th pass of the loop hands to get_semantic_tree.
TreeInput(i) == elements_lists[i]

BuildTree ==
    /\ pc = "trees"
    /\ selected_step >= 3
    /\ Len(trees) < Len(elements_lists)
    /\ LET elements == TreeInput(Len(trees) + 1)
       IN \E tree \in get_semantic_tree(elements) :
            /\ trees' = Append(trees, tree)
            /\ calls' = Append(calls, Call("get_semantic_tree", None, elements, "ok"))
    /\ pc' = IF Len(trees') = Len(elements_lists) THEN "render" ELSE "trees"
    /\ UNCHANGED <<environ, extra_steps, session, secapio_api_key, tickers, input_urls,
                   metadatas, htmls_urls, htmls, elements_lists, selected_step, process_steps, view,
                   shown, messages, produced, parsed_reports>>

(* ---- rendering ---- *)
\* get_label (lines 372-385) for the i-th report; zip_longest leaves the
\* metadata None where metadatas is shorter than htmls_urls.
get_label(i) ==
    IF i > Len(metadatas) THEN <<htmls_urls[i]>> ELSE <<metadatas[i].companyName>>

\* render_tree_node (lines 445-453): the elements in the order they are rendered,
\* each with its depth.
RECURSIVE render_tree_node(_, _)
RECURSIVE render_tree_nodes(_, _)
render_tree_node(tree_node, depth) ==
    <<[element |-> tree_node.semantic_element, depth |-> depth]>>
        \o render_tree_nodes(tree_node.children, depth + 1)
render_tree_nodes(nodes, depth) ==
    IF nodes = <<>> THEN <<>>
    ELSE render_tree_node(Head(nodes), depth) \o render_tree_nodes(Tail(nodes), depth)

\* Lines 435-461: one report per input, the document at step 1, the tree at step 3.
RenderReports ==
    [i \in 1..Len(htmls_urls) |->
        [label |-> get_label(i),
         body |-> IF selected_step = 1 THEN htmls[i]
                  ELSE render_tree_nodes(trees[i].root_nodes, 0)]]

\* Lines 468-489: the source shown with an element when several reports are loaded.
ElementSource(i) ==
    IF Len(htmls_urls) > 1
    THEN LET name == metadatas[i].companyName
         IN IF Cardinality({j \in 1..Len(metadatas) : metadatas[j].companyName = name}) > 1
            THEN <<name, "periodOfReport">> ELSE <<name>>
    ELSE <<>>

\* Lines 490-496.
TitlesAndElements(i) ==
    [k \in 1..Len(elements_lists[i]) |->
        [title |-> <<PrettyName(elements_lists[i][k].cls), ElementSource(i)>>,
         element |-> elements_lists[i][k]]]

\* interleave_lists: round robin over the lists, exhausted lists skipped.
RECURSIVE interleave_lists(_)
interleave_lists(lists) ==
    IF \A i \in 1..Len(lists) : lists[i] = <<>> THEN <<>>
    ELSE Flatten([i \in 1..Len(lists) |->
                     IF lists[i] = <<>> THEN <<>> ELSE <<Head(lists[i])>>])
         \o interleave_lists([i \in 1..Len(lists) |->
                     IF lists[i] = <<>> THEN <<>> ELSE Tail(lists[i])])

\* Mutant: the Interleave checkbox ignored.
DisplayListConcatenated(per_report, do_interleave) == Flatten(per_report)

\* Lines 498-501.
DisplayList(per_report, do_interleave) ==
    IF do_interleave THEN interleave_lists(per_report) ELSE Flatten(per_report)

\* Python's s[start:end] for 0 <= start, 0 <= end (positions counted from 0).
Slice(s, start, end) ==
    LET hi == Min(end, Len(s))
    IN IF start >= hi THEN <<>> ELSE [k \in 1..(hi - start) |-> s[start + k]]

\* Mutant: the columns filled from the second element of the page on.
StrideOffByOne(s, start, step) ==
    IF start + 1 >= Len(s) THEN <<>>
    ELSE [k \in 1..(((Len(s) - start - 2) \div step) + 1) |-> s[start + (k - 1) * step + 2]]

\* Python's s[start::step] for 0 <= start, step >= 1.
Stride(s, start, step) ==
    IF start >= Len(s) THEN <<>>
    ELSE [k \in 1..(((Len(s) - start - 1) \div step) + 1) |-> s[start + (k - 1) * step + 1]]

\* Mutant: the page number taken as 0-based.
PageWindowZeroBased(list, selected_page, pagination_size) ==
    Slice(list, selected_page * pagination_size, (selected_page + 1) * pagination_size)

\* Lines 529-533.
PageWindow(list, selected_page, pagination_size) ==
    Slice(list, (selected_page - 1) * pagination_size, selected_page * pagination_size)

\* The pages sac.pagination offers for `total` items.
PageCount(total, page_size) ==
    IF total = 0 THEN 1 ELSE ((total + page_size - 1) \div page_size)

\* Lines 504-509: the page size the input field starts with.
DefaultPageSizeFor(n) == IF n > DEFAULT_PAGE_SIZE THEN DEFAULT_PAGE_SIZE ELSE 0

\* Lines 463-542: what the Parsed step shows.
RenderElements(pagination_size, selected_page) ==
    LET list == DisplayList([i \in 1..Len(elements_lists) |-> TitlesAndElements(i)],
                            view.do_interleave)
        page == IF pagination_size # 0
                THEN PageWindow(list, selected_page, pagination_size) ELSE list
    IN [kind |-> "elements",
        list |-> list,
        pagination_size |-> pagination_size,
        selected_page |-> selected_page,
        page |-> page,
        columns |-> [c \in 1..view.element_column_count |->
                        Stride(page, c - 1, view.element_column_count)]]

\* to_tree_item (lines 544-568) with the Indexer of lines 570-575: `i` is the
\* indexer's counter before the call, the result carries the counter after it.
TextLength(element) == 7 * element.pos

RECURSIVE to_tree_item(_, _)
RECURSIVE to_tree_items(_, _)

\* Mutant: the index taken from the indexer after the children were converted.
to_tree_item_index_last(tree_node, i) ==
    LET below == to_tree_items(tree_node.children, i)
        index == below.i + 1
    IN [item |-> [label |-> tree_node.semantic_element.cls,
                  children |-> below.items,
                  index |-> index,
                  tag |-> IF view.show_text_length
                          THEN TextLength(tree_node.semantic_element) ELSE index],
        i |-> index]

to_tree_item(tree_node, i) ==
    LET index == i + 1
        below == to_tree_items(tree_node.children, index)
    IN [item |-> [label |-> tree_node.semantic_element.cls,
                  children |-> below.items,
                  index |-> index,
                  tag |-> IF view.show_text_length
                          THEN TextLength(tree_node.semantic_element) ELSE index],
        i |-> below.i]
to_tree_items(nodes, i) ==
    IF nodes = <<>> THEN [items |-> <<>>, i |-> i]
    ELSE LET first == to_tree_item(Head(nodes), i)
             rest == to_tree_items(Tail(nodes), first.i)
         IN [items |-> <<first.item>> \o rest.items, i |-> rest.i]

\* Line 597: the Browser's items, the Indexer starting at -1.
TreeItems(tree) == to_tree_items(tree.root_nodes, -1).items

\* Lines 578-587: the report the selectbox picks; index() finds the first equal label.
SelectedIndex(chosen) ==
    LET options == [i \in 1..Len(htmls_urls) |-> get_label(i)]
    IN IF Len(htmls_urls) > 1
       THEN CHOOSE i \in 1..Len(options) :
              /\ options[i] = options[chosen]
              /\ \A j \in 1..(i - 1) : options[j] # options[chosen]
       ELSE 1

\* Mutant: the Viewer reads the list as the parser returned it.
RenderTreeFromProduced(chosen, selected_tree_item_ids) ==
    LET selected_index == SelectedIndex(chosen)
        elements == produced[selected_index]
        in_range == \A k \in Range(selected_tree_item_ids) : k < Len(elements)
    IN [kind |-> "tree",
        selected_index |-> selected_index,
        tree_items |-> TreeItems(trees[selected_index]),
        selected_tree_item_ids |-> selected_tree_item_ids,
        index_error |-> ~in_range,
        viewer |-> IF selected_tree_item_ids = <<>> \/ ~in_range THEN <<>>
                   ELSE <<elements[selected_tree_item_ids[1] + 1]>>]

\* Lines 592-610: the Browser and the Viewer of the tree view.
\* selected_tree_item_ids is <<>> for None, the viewer <<>> when it shows no element.
RenderTree(chosen, selected_tree_item_ids) ==
    LET selected_index == SelectedIndex(chosen)
        elements == elements_lists[selected_index]
        in_range == \A k \in Range(selected_tree_item_ids) : k < Len(elements)
    IN [kind |-> "tree",
        selected_index |-> selected_index,
        tree_items |-> TreeItems(trees[selected_index]),
        selected_tree_item_ids |-> selected_tree_item_ids,
        index_error |-> ~in_range,
        viewer |-> IF selected_tree_item_ids = <<>> \/ ~in_range THEN <<>>
                   ELSE <<elements[selected_tree_item_ids[1] + 1]>>]

\* Mutant: the elements and trees paired with the reports in reverse order.
ParsedReportsReversed ==
    LET n == Min(Min(Len(htmls_urls), Len(htmls)), Min(Len(elements_lists), Len(trees)))
    IN [i \in 1..n |-> [url |-> htmls_urls[i], html |-> htmls[i],
                        elements |-> elements_lists[n + 1 - i],
                        tree |-> trees[n + 1 - i]]]

\* Lines 613-621: zip stops at the shortest list.
ParsedReports ==
    LET n == Min(Min(Len(htmls_urls), Len(htmls)), Min(Len(elements_lists), Len(trees)))
    IN [i \in 1..n |-> [url |-> htmls_urls[i], html |-> htmls[i],
                        elements |-> elements_lists[i], tree |-> trees[i]]]

\* Lines 365-625: the page body, then the return.
Render ==
    /\ pc = "render"
    /\ \E size \in {DefaultPageSizeFor(TotalLen(elements_lists))} \cup 0..MaxPageSize :
       \E page \in 1..(IF size = 0 THEN 1 ELSE PageCount(TotalLen(elements_lists), size)) :
       \E chosen \in 1..Len(htmls_urls) :
       \E item \in {<<>>} \cup {<<k>> : k \in 0..(TotalLen(elements_lists) - 1)} :
          /\ (selected_step # 2 => size = 0)
          /\ (~(selected_step = 3 /\ view.use_tree_view) => chosen = 1 /\ item = <<>>)
          /\ (selected_step = 3 /\ view.use_tree_view /\ item # <<>>
                => item[1] < Len(render_tree_nodes(trees[SelectedIndex(chosen)].root_nodes, 0)))
          /\ shown' =
               IF selected_step = 1 \/ (selected_step = 3 /\ ~view.use_tree_view)
               THEN [kind |-> "reports", reports |-> RenderReports]
               ELSE IF selected_step = 2 THEN RenderElements(size, page)
               ELSE IF selected_step = 3 THEN RenderTree(chosen, item)
               ELSE shown
          /\ IF shown'.kind = "tree" /\ shown'.index_error
             THEN /\ pc' = "crashed"
                  /\ parsed_reports' = parsed_reports
             ELSE /\ pc' = "done"
                  /\ parsed_reports' = ParsedReports
    /\ UNCHANGED <<environ, extra_steps, session, secapio_api_key, tickers, input_urls,
                   metadatas, htmls_urls, htmls, elements_lists, trees, selected_step, process_steps,
                   view, messages, calls, produced>>

(* ---- the next run ---- *)
ResetLocals ==
    /\ secapio_api_key' = ""
    /\ tickers' = <<"AAPL", "GOOG">>
    /\ input_urls' = <<>>
    /\ metadatas' = <<>>
    /\ htmls_urls' = <<>>
    /\ htmls' = <<>>
    /\ elements_lists' = <<>>
    /\ trees' = <<>>
    /\ selected_step' = 0
    /\ process_steps' = <<>>
    /\ view' = DefaultView
    /\ shown' = NothingShown
    /\ messages' = <<>>
    /\ calls' = <<>>
    /\ produced' = <<>>
    /\ parsed_reports' = <<>>

RunEnded == pc \in {"done", "stopped", "crashed"}

\* Any interaction that leaves the step selector alone starts the script again.
Rerun ==
    /\ RunEnded
    /\ pc' = "start"
    /\ ResetLocals
    /\ UNCHANGED <<environ, extra_steps, session>>

\* The user picks a step in the step selector of a page that shows it.
UserSelectStep ==
    /\ pc = "done"
    /\ \E index \in 0..(Len(ProcessStepTitles(extra_steps)) - 1) :
         session' = [session EXCEPT !.step_index = index, !.step_clicked = TRUE]
    /\ pc' = "start"
    /\ ResetLocals
    /\ UNCHANGED <<environ, extra_steps>>

Next ==
    \/ ReadApiKey
    \/ ChooseReports
    \/ RetrieveTicker
    \/ RetrieveUrl
    \/ SelectStep
    \/ ParseReport
    \/ ViewOptions
    \/ BuildTree
    \/ Render
    \/ Rerun
    \/ UserSelectStep

Spec == Init /\ [][Next]_vars

(* ---- the page from the view options on, over larger documents ---- *)
\* The lists the parser may have returned for the first k of the documents.
RECURSIVE ParsedLists(_, _, _)
ParsedLists(docs, k, budget) ==
    IF k = 0 THEN {<<>>}
    ELSE UNION {{Append(earlier, e) : e \in ParserOutputs(docs[k], docs, earlier, budget)}
                  : earlier \in ParsedLists(docs, k - 1, budget)}

\* The calls of a run in URL mode, up to the end of parsing.
CallsOfUrlRun(key, urls) ==
    Flatten([i \in 1..Len(urls) |->
                <<Call("download_html", key, urls[i], "ok"),
                  Call("get_metadata", key, urls[i], "ok")>>])
    \o [i \in 1..Len(urls) |-> Call("get_semantic_elements", None, HtmlOf(urls[i]), "ok")]

\* The URLs entered in the runs looked at from the view options on.
ViewUrls == <<"U1", "U2", "U3", "U4">>

\* A run in URL mode with a typed key, at the point where parsing has finished
\* (line 253), the selected step being Parsed or a later one.
InitView ==
    /\ environ = None
    /\ extra_steps = SubSeq(ExtraStepTitles, 1, 1)
    /\ secapio_api_key = "TYPED"
    /\ tickers = <<>>
    /\ input_urls \in {SubSeq(ViewUrls, 1, n) : n \in 1..Min(MaxReports, Len(ViewUrls))}
    /\ metadatas = [i \in 1..Len(input_urls) |-> MetadataOfUrl(input_urls[i])]
    /\ htmls_urls = input_urls
    /\ htmls = [i \in 1..Len(input_urls) |-> HtmlOf(input_urls[i])]
    /\ selected_step \in 2..Len(ProcessStepTitles(extra_steps))
    /\ session = [api_key |-> "TYPED", step_index |-> selected_step - 1, step_clicked |-> TRUE]
    /\ process_steps = ProcessStepTitles(extra_steps)
    /\ produced \in ParsedLists(htmls, Len(htmls), MaxElems)
    /\ elements_lists = produced
    /\ trees = <<>>
    /\ view = DefaultView
    /\ shown = NothingShown
    /\ messages = <<>>
    /\ calls = CallsOfUrlRun(secapio_api_key, input_urls)
    /\ parsed_reports = <<>>
    /\ pc = "options"

NextView ==
    \/ ViewOptions
    \/ BuildTree
    \/ Render

SpecView == InitView /\ [][NextView]_vars

(* ======================= the claims ======================= *)
KeyErrors == {"SecapioApiKeyNotSetError", "SecapioApiKeyInvalidError"}
RetrievalFns == {"get_metadata", "download_html"}

KeyErrorMessage(outcome) ==
    IF outcome = "SecapioApiKeyNotSetError" THEN MSG_KEY_NOT_SET ELSE MSG_KEY_INVALID

\* C1: a retrieval call that fails with the unset-key or the invalid-key error is
\* the last call of its run (no later retrieval, parser or tree-builder call), the
\* matching error message is shown, no report content is rendered, nothing is
\* returned, and the run is stopped, not crashed.
C1_KeyFailureHalts ==
    \A i \in 1..Len(calls) :
        (calls[i].fn \in RetrievalFns /\ calls[i].outcome \in KeyErrors) =>
            /\ i = Len(calls)
            /\ pc = "stopped"
            /\ messages = <<KeyErrorMessage(calls[i].outcome)>>
            /\ messages[1].kind = "error"
            /\ shown = NothingShown
            /\ elements_lists = <<>>
            /\ trees = <<>>
            /\ parsed_reports = <<>>

\* C1 witness: the invalid-key error on a call for the second report, after the
\* first report was retrieved.
C1_Witness ==
    /\ pc = "stopped"
    /\ Len(htmls) = 1
    /\ Len(calls) >= 3
    /\ calls[Len(calls)].outcome = "SecapioApiKeyInvalidError"

MissingInput == pc \notin {"start", "inputs"} /\ tickers = <<>> /\ input_urls = <<>>

\* C2 as stated: on missing input an inline error is shown and the run halts
\* with no retrieval, no parsing and nothing rendered.
C2_MissingInputShowsError ==
    MissingInput =>
        /\ pc = "stopped"
        /\ Len(messages) = 1
        /\ messages[1].kind = "error"
        /\ calls = <<>>
        /\ shown = NothingShown

\* C2 as amended: on missing input the notice of lines 149 / 162 is shown with
\* st.info (an informational message, not an error) and the run halts with no
\* retrieval, no parsing, nothing rendered and nothing returned.
C2_MissingInputHalts ==
    MissingInput =>
        /\ pc = "stopped"
        /\ Len(messages) = 1
        /\ messages[1] \in {MSG_NO_TICKER, MSG_NO_URL}
        /\ messages[1].kind = "info"
        /\ calls = <<>>
        /\ htmls = <<>>
        /\ elements_lists = <<>>
        /\ shown = NothingShown
        /\ parsed_reports = <<>>

\* C2 witness: URL mode, no URL entered.
C2_Witness == MissingInput /\ pc = "stopped" /\ messages = <<MSG_NO_URL>>

\* C3: every get_metadata / download_html call gets the environment variable's
\* value when the variable is set, and the value of the input field otherwise.
C3_KeyFromEnvOrInput ==
    \A i \in 1..Len(calls) :
        calls[i].fn \in RetrievalFns =>
            calls[i].key = IF environ # None THEN environ ELSE session.api_key

\* The inputs of the run, as report URLs.
NumInputs == Len(tickers) + Len(input_urls)
ExpectedUrl(i) ==
    IF i <= Len(tickers) THEN FilingUrl(tickers[i]) ELSE input_urls[i - Len(tickers)]

\* The elements of a tree's nodes, parents before children, left to right.
RECURSIVE NodeElements(_)
NodeElements(nodes) ==
    IF nodes = <<>> THEN <<>>
    ELSE <<Head(nodes).semantic_element>> \o NodeElements(Head(nodes).children)
            \o NodeElements(Tail(nodes))

ReportBelongsTo(report, i) ==
    /\ report.url = ExpectedUrl(i)
    /\ report.html = HtmlOf(ExpectedUrl(i))
    /\ report.elements = elements_lists[i]
    /\ \A k \in 1..Len(report.elements) : report.elements[k].html = report.html
    /\ \A k \in 1..Len(report.elements) : report.elements[k] \in Range(produced[i])
    /\ report.tree = trees[i]
    /\ NodeElements(report.tree.root_nodes) = report.elements

OnePerInput ==
    /\ Len(parsed_reports) = NumInputs
    /\ \A i \in 1..Len(parsed_reports) : ReportBelongsTo(parsed_reports[i], i)

\* C4 as stated: a run that completes returns one parsed report per input, in
\* input order, whatever step is selected.
C4_OneReportPerInput == pc = "done" => OnePerInput

\* C4 as amended: a run that completes with the Structured step or a later one
\* selected returns one parsed report per input, in input order, the i-th one
\* holding the i-th input's url, html, elements and tree; with Original or
\* Parsed selected it returns no parsed report.
C4_OneReportPerInputFromStep3 ==
    pc = "done" =>
        IF selected_step >= 3 THEN OnePerInput ELSE parsed_reports = <<>>

\* C4 witness: two different reports with elements, returned at step 3.
C4_Witness ==
    /\ pc = "done"
    /\ selected_step = 3
    /\ Len(parsed_reports) = 2
    /\ parsed_reports[1].url # parsed_reports[2].url
    /\ parsed_reports[1].elements # <<>>

\* C10: the steps offered are Original, Parsed, Structured and then the caller's
\* extra steps in their order; selected_step is the 1-based position of the
\* selected step, within 1..3+len(extra_steps), and is 1 as long as the user has
\* not picked a step.
C10_StepSelector ==
    pc \in {"parse", "options", "trees", "render", "done"} =>
        /\ Len(process_steps) = 3 + Len(extra_steps)
        /\ SubSeq(process_steps, 1, 3) = <<"Original", "Parsed", "Structured">>
        /\ SubSeq(process_steps, 4, Len(process_steps)) = extra_steps
        /\ selected_step \in 1..(3 + Len(extra_steps))
        /\ selected_step = session.step_index + 1
        /\ (~session.step_clicked => selected_step = 1)

\* C10 witness: a run returns with a caller-supplied step selected.
C10_Witness ==
    /\ pc = "done"
    /\ extra_steps # <<>>
    /\ selected_step = 4
    /\ process_steps[selected_step] = extra_steps[1]

\* The j-th smallest member of a set of positions.
NthOf(S, j) == CHOOSE k \in S : Cardinality({m \in S : m < k}) = j - 1

\* The elements of a list whose class is selected, in the order of the list.
SelectedSubsequence(elements, selected) ==
    LET kept == {k \in 1..Len(elements) : elements[k].cls \in selected}
    IN [j \in 1..Cardinality(kept) |-> elements[NthOf(kept, j)]]

\* C5: whatever step and filter selection, the list get_semantic_elements
\* returned for each report still holds the elements the parser produced, in the
\* same order.
C5_ElementsUntouched == pc # "options" => elements_lists = produced

\* What lines 302-307 leave in the lists instead: in the Parsed and Structured
\* steps the produced elements whose class is selected, in their produced order.
ElementsFilteredInPlace ==
    pc # "options" =>
        /\ Len(elements_lists) = Len(produced)
        /\ \A i \in 1..Len(produced) :
              elements_lists[i] =
                  IF selected_step \in 2..3
                  THEN SelectedSubsequence(produced[i], view.selected_types)
                  ELSE produced[i]

\* The display list, page size and page of the Parsed step.
ShowsElements == shown.kind = "elements"

\* C6: with page size s > 0 and page p the page shows the elements at positions
\* (p-1)*s .. p*s-1 (from 0) of the display list that exist, in order; the pages
\* 1..ceil(n/s) concatenated are the list; with page size 0 the whole list is shown.
C6_Pagination ==
    ShowsElements =>
        LET list == shown.list
            n == Len(list)
            s == shown.pagination_size
            p == shown.selected_page
            first == (p - 1) * s
            count == IF n - first > s THEN s ELSE IF n > first THEN n - first ELSE 0
            pages == (n + s - 1) \div s
        IN IF s = 0 THEN shown.page = list
           ELSE /\ p \in 1..(IF n = 0 THEN 1 ELSE pages)
                /\ Len(shown.page) = count
                /\ \A j \in 1..count : shown.page[j] = list[first + j]
                /\ Flatten([q \in 1..pages |-> PageWindow(list, q, s)]) = list
                /\ \A q \in 1..pages : PageWindow(list, q, s) # <<>>

\* C6 witness: the last, partly filled page of a three-element list.
C6_Witness ==
    /\ ShowsElements
    /\ Len(shown.list) = 3
    /\ shown.pagination_size = 2
    /\ shown.selected_page = 2
    /\ Len(shown.page) = 1

\* Where round robin puts element k of report i: after the first k-1 elements
\* of every report and the k-th elements of the reports before i.
RECURSIVE SumTo(_, _)
SumTo(f, n) == IF n = 0 THEN 0 ELSE f[n] + SumTo(f, n - 1)

RoundRobinPosition(lens, i, k) ==
    SumTo([j \in 1..Len(lens) |-> Min(lens[j], k - 1)], Len(lens))
      + Cardinality({j \in 1..(i - 1) : lens[j] >= k}) + 1

ConcatPosition(lens, i, k) == SumTo(lens, i - 1) + k

\* C7: Interleave is offered only in the Parsed step with two or more reports;
\* enabled, the display list is the round-robin interleaving of the reports'
\* element lists (every element once, each report's order kept); disabled, it
\* is their concatenation in report order.
C7_Interleave ==
    /\ view.do_interleave => (selected_step = 2 /\ Len(htmls) >= 2)
    /\ ShowsElements =>
         LET lens == [i \in 1..Len(elements_lists) |-> Len(elements_lists[i])]
         IN /\ Len(shown.list) = SumTo(lens, Len(lens))
            /\ \A i \in 1..Len(lens) : \A k \in 1..lens[i] :
                  shown.list[IF view.do_interleave
                             THEN RoundRobinPosition(lens, i, k)
                             ELSE ConcatPosition(lens, i, k)].element
                    = elements_lists[i][k]

\* C7 witness: interleaving two reports of different documents where it differs
\* from concatenation.
C7_Witness ==
    /\ ShowsElements
    /\ view.do_interleave
    /\ Len(elements_lists) = 2
    /\ Len(elements_lists[1]) = 2
    /\ Len(elements_lists[2]) = 1
    /\ htmls[1] # htmls[2]
    /\ shown.list[2].element = elements_lists[2][1]

\* The display items mirror the nodes: same children in the same order.
RECURSIVE SameShape(_, _)
SameShape(items, nodes) ==
    /\ Len(items) = Len(nodes)
    /\ \A k \in 1..Len(items) :
          /\ items[k].label = nodes[k].semantic_element.cls
          /\ SameShape(items[k].children, nodes[k].children)

\* The indices of the display items, parents before children, left to right.
RECURSIVE ItemIndices(_)
ItemIndices(items) ==
    IF items = <<>> THEN <<>>
    ELSE <<Head(items).index>> \o ItemIndices(Head(items).children)
            \o ItemIndices(Tail(items))

RECURSIVE ItemTags(_)
ItemTags(items) ==
    IF items = <<>> THEN <<>>
    ELSE <<Head(items).tag>> \o ItemTags(Head(items).children) \o ItemTags(Tail(items))

ShowsTree == shown.kind = "tree"

\* C8: the Browser's items have the shape of the selected report's tree, and the
\* indices, read parents first and children left to right, are 0, 1, .., N-1
\* for the N nodes of the tree (the tag shows the index unless text lengths are shown).
C8_PreorderIndices ==
    ShowsTree =>
        LET nodes == trees[shown.selected_index].root_nodes
            N == Len(NodeElements(nodes))
        IN /\ SameShape(shown.tree_items, nodes)
           /\ ItemIndices(shown.tree_items) = [k \in 1..N |-> k - 1]
           /\ (~view.show_text_length =>
                  ItemTags(shown.tree_items) = ItemIndices(shown.tree_items))

\* C8 witness: a root with a child, followed by a second root.
C8_Witness ==
    /\ ShowsTree
    /\ Len(shown.tree_items) = 2
    /\ Len(shown.tree_items[1].children) = 1
    /\ shown.tree_items[2].index = 2

\* The number of produced elements of exactly the class cls, over all reports.
ProducedOfClass(cls) ==
    SumTo([i \in 1..Len(produced) |->
              Cardinality({k \in 1..Len(produced[i]) : produced[i][k].cls = cls})],
          Len(produced))

FilterOffered == pc # "options" /\ selected_step \in 2..3

\* C9: in the Parsed and Structured steps the filter offers one option per class
\* that occurs in the loaded reports; an option's count is the number of elements
\* of exactly its class over all reports; the options are in non-increasing
\* order of count; the counts add up to the number of parsed elements.
C9_FilterOptions ==
    FilterOffered =>
        LET options == view.available_element_types
            counts == [j \in 1..Len(options) |-> options[j][1][1]]
        IN /\ Len(options) = Cardinality({c \in Classes :
                                  \E i \in 1..Len(produced) :
                                     \E k \in 1..Len(produced[i]) : produced[i][k].cls = c})
           /\ \A c \in Classes :
                 ProducedOfClass(c) > 0 =>
                    Cardinality({j \in 1..Len(options) : options[j][2] = c}) = 1
           /\ \A j \in 1..Len(options) :
                 /\ counts[j] = ProducedOfClass(options[j][2])
                 /\ counts[j] > 0
                 /\ options[j][1][2] = PrettyName(options[j][2])
           /\ \A j \in 1..(Len(options) - 1) : counts[j] >= counts[j + 1]
           /\ SumTo(counts, Len(counts)) = TotalLen(produced)

\* C9 witness: the class met first is not the most frequent one, and a subclass
\* of IrrelevantElement is counted on its own.
C9_Witness ==
    /\ FilterOffered
    /\ Len(view.available_element_types) = 2
    /\ view.available_element_types[1][1][1] = 2
    /\ view.available_element_types[1][2] = "EmptyElement"
    /\ view.available_element_types[2][2] = "IrrelevantElement"
    /\ produced[1][1].cls = "IrrelevantElement"

(* ---- the order of the pipeline stages ---- *)
StageOf(fn) ==
    IF fn \in RetrievalFns THEN 1 ELSE IF fn = "get_semantic_elements" THEN 2 ELSE 3

CallsOfStage(n) == SelectSeq(calls, LAMBDA c : StageOf(c.fn) = n)

\* The list of report i after the filter stage: filtered in the Parsed and
\* Structured steps, where the filter is offered, as produced in the other steps.
ListAfterFilter(i) ==
    IF selected_step \in 2..3
    THEN SelectedSubsequence(produced[i], view.selected_types)
    ELSE produced[i]

\* C11: the calls of a run come in the order retrieval, parsing, tree building;
\* the parser is called only with step >= 2 and after every report was
\* retrieved, once per report on that report's document; the tree builder is
\* called only with step >= 3, after the filter stage (no tree exists while the
\* filter is still to be applied), once per report on exactly that report's list
\* as the filter left it, so a tree holds no element of a deselected class; a run
\* that gets to rendering made NumInputs parser calls from step 2 on and none at
\* step 1, NumInputs tree-builder calls from step 3 on and none below.
C11_StagesInOrder ==
    LET retrieval == CallsOfStage(1)
        parser == CallsOfStage(2)
        builder == CallsOfStage(3)
    IN /\ \A i, j \in 1..Len(calls) :
             i < j => StageOf(calls[i].fn) <= StageOf(calls[j].fn)
       /\ parser # <<>> =>
             /\ selected_step >= 2
             /\ Len(htmls) = NumInputs
             /\ Len(retrieval) = 2 * NumInputs
             /\ \A i \in 1..Len(retrieval) : retrieval[i].outcome = "ok"
       /\ Len(parser) <= NumInputs
       /\ \A i \in 1..Len(parser) : parser[i].arg = htmls[i]
       /\ pc = "options" => (trees = <<>> /\ builder = <<>>)
       /\ builder # <<>> => (selected_step >= 3 /\ Len(parser) = NumInputs)
       /\ Len(builder) = Len(trees)
       /\ Len(builder) <= NumInputs
       /\ \A i \in 1..Len(builder) :
             /\ builder[i].arg = ListAfterFilter(i)
             /\ NodeElements(trees[i].root_nodes) = ListAfterFilter(i)
             /\ selected_step = 3 =>
                   \A k \in 1..Len(NodeElements(trees[i].root_nodes)) :
                       NodeElements(trees[i].root_nodes)[k].cls \in view.selected_types
       /\ pc \in {"render", "done"} =>
             /\ Len(parser) = IF selected_step >= 2 THEN NumInputs ELSE 0
             /\ Len(builder) = IF selected_step >= 3 THEN NumInputs ELSE 0

\* C11 witness: a Structured-step run over two reports in which the one parsed
\* element was deselected before the trees were built.
C11_Witness ==
    /\ pc = "done"
    /\ selected_step = 3
    /\ NumInputs = 2
    /\ TotalLen(produced) = 1
    /\ TotalLen(elements_lists) = 0
    /\ Len(CallsOfStage(3)) = 2
    /\ \A i \in 1..2 : trees[i].root_nodes = <<>>

\* C11 witness of the lower steps: an Original-step run that rendered two
\* reports without a parser or tree-builder call.
C11_WitnessStep1 ==
    /\ pc = "done"
    /\ selected_step = 1
    /\ Len(CallsOfStage(1)) = 4
    /\ CallsOfStage(2) = <<>>
    /\ CallsOfStage(3) = <<>>

(* ---- the element-type filter ---- *)
\* The classes that occur in the parsed reports.
OccurringClasses ==
    {c \in Classes : \E i \in 1..Len(produced) :
                        \E k \in 1..Len(produced[i]) : produced[i][k].cls = c}

\* The run is past lines 302-307 of a step that offers the filter.
FilterApplied == pc \in {"trees", "render", "done"} /\ selected_step \in 2..3

\* C12: in the Parsed and Structured steps, once the filter was applied, each
\* report's list is the produced elements whose class is one of the selected
\* classes itself (an element of a subclass of a selected class is dropped unless
\* its own class is selected), in their produced order; the default selection
\* names, once each, the offered classes that are neither IrrelevantElement nor
\* derived from it, and every default option is one of the offered options.
C12_FilterExact ==
    FilterApplied =>
        LET options == view.available_element_types
            offered == DictKeys(options)
            defaults == view.preselected_types
        IN /\ Len(elements_lists) = Len(produced)
           /\ \A i \in 1..Len(produced) :
                 /\ elements_lists[i] = SelectedSubsequence(produced[i], view.selected_types)
                 /\ \A k \in 1..Len(produced[i]) :
                       produced[i][k].cls \notin view.selected_types =>
                           produced[i][k] \notin Range(elements_lists[i])
           /\ Range(DictValues(options)) = OccurringClasses
           /\ Range(defaults) \subseteq Range(offered)
           /\ \A a, b \in 1..Len(defaults) : a # b => defaults[a] # defaults[b]
           /\ {DictGet(options, l) : l \in Range(defaults)} =
                 {c \in OccurringClasses :
                     c # "IrrelevantElement" /\ c # "EmptyElement"}

\* C12 witness: IrrelevantElement is selected and EmptyElement, its subclass, is
\* not; the EmptyElement between two kept elements is dropped, and the default
\* selection is the one class that is not irrelevant.
C12_Witness ==
    /\ FilterApplied
    /\ view.selected_types = {"IrrelevantElement", "TextElement"}
    /\ Len(produced[1]) = 3
    /\ produced[1][1].cls = "IrrelevantElement"
    /\ produced[1][2].cls = "EmptyElement"
    /\ produced[1][3].cls = "TextElement"
    /\ elements_lists[1] = <<produced[1][1], produced[1][3]>>
    /\ Len(view.preselected_types) = 1
    /\ DictGet(view.available_element_types, view.preselected_types[1]) = "TextElement"

PastChooser == pc \notin {"start", "inputs"}

\* C14: the assertion of line 176 never fails; a run that is past the report
\* chooser either halted there with the missing-input notice, both lists empty
\* and no call made, or has exactly one of tickers and input_urls non-empty; the
\* retrieval calls of a run are the ticker loop's (get_metadata first, on a
\* ticker) or the URL loop's (download_html first, on an entered URL), never both.
C14_AssertionHolds ==
    /\ MSG_ASSERTION \notin Range(messages)
    /\ PastChooser =>
          IF tickers = <<>> /\ input_urls = <<>>
          THEN /\ pc = "stopped"
               /\ calls = <<>>
               /\ Len(messages) = 1
               /\ messages[1] \in {MSG_NO_TICKER, MSG_NO_URL}
          ELSE /\ (tickers = <<>>) # (input_urls = <<>>)
               /\ \A i \in 1..Len(calls) :
                     calls[i].fn \in RetrievalFns =>
                        IF tickers # <<>>
                        THEN /\ calls[i].arg \in Range(tickers)
                                    \cup {FilingUrl(t) : t \in Range(tickers)}
                             /\ calls[i].fn = (IF i % 2 = 1 THEN "get_metadata"
                                                             ELSE "download_html")
                        ELSE /\ calls[i].arg \in Range(input_urls)
                             /\ calls[i].fn = (IF i % 2 = 1 THEN "download_html"
                                                             ELSE "get_metadata")

\* C14 witness: URL mode, two URLs entered; the run passed the assertion with
\* no ticker left from the defaults and retrieved both reports.
C14_Witness ==
    /\ pc = "steps"
    /\ tickers = <<>>
    /\ Len(input_urls) = 2
    /\ Len(calls) = 4
    /\ calls[1].fn = "download_html"

(* ---- the columns of the Parsed step ---- *)
\* C15: the Parsed step lays the page out in c >= 1 columns; the element at
\* position j (from 0) of the page is in column j mod c at row j div c, so each
\* column keeps the page order, and the columns together hold each position of
\* the page once; the column count the input starts with is 2 when exactly two
\* reports are loaded and 1 otherwise.
C15_Columns ==
    /\ ShowsElements =>
          LET c == view.element_column_count
              page == shown.page
              columns == shown.columns
          IN /\ c >= 1
             /\ Len(columns) = c
             /\ \A j \in 0..(Len(page) - 1) :
                   /\ (j \div c) + 1 \in 1..Len(columns[(j % c) + 1])
                   /\ columns[(j % c) + 1][(j \div c) + 1] = page[j + 1]
             /\ TotalLen(columns) = Len(page)
    /\ pc \in {"trees", "render", "done"} =>
          view.default_column_count = IF Len(htmls) = 2 THEN 2 ELSE 1

\* C15 witness: a page of three elements in two columns, the first and the
\* third element in the first column, of a single report (default one column).
C15_Witness ==
    /\ ShowsElements
    /\ view.element_column_count = 2
    /\ view.default_column_count = 1
    /\ Len(shown.page) = 3
    /\ shown.columns = <<<<shown.page[1], shown.page[3]>>, <<shown.page[2]>>>>

====
